---- MODULE Spec2Model ----
(***************************************************************************)
(* A model of ExchangeRatesApi (src/src/exchange-rates-api.ts): the fluent *)
(* client that stores a base currency, target symbols and a date selector, *)
(* validates them, builds the request URL, issues one HTTP GET and reshapes *)
(* the JSON answer (fetch) or averages a time series (avg).                *)
(*                                                                         *)
(* Text is modelled as a sequence of one-character strings wherever the    *)
(* code transforms it (upper-casing, URI encoding, date formatting, the    *)
(* trailing slash); Str turns such a sequence into a TLA+ string.          *)
(* Rates are exact rationals: a whole number of tenths on input, a pair    *)
(* <<numerator, denominator>> on output.  IEEE-754 rounding error is not   *)
(* modelled.                                                               *)
(***************************************************************************)
EXTENDS Integers, Sequences, FiniteSets, TLC

VARIABLES
  _apiBaseUrl,  \* private _apiBaseUrl: string
  _accessKey,   \* private _accessKey: string
  _base,        \* private _base?: string          (Undefined when unset)
  _symbols,     \* private _symbols?: string[]     (Undefined when unset)
  _from,        \* private _from: 'latest' | Date
  _to,          \* private _to?: Date              (Undefined when unset)
  op,           \* the method called (or the continuation run) last; base(),
                \* symbols() and avg() with the argument they were given
  ret,          \* what that call returned or threw synchronously
  net,          \* the HTTP GET in flight, with the continuation's closure
  settled,      \* how the promise of the last answered fetch()/avg() settled
  gets,         \* number of HTTP GETs issued so far
  calls         \* number of fetch()/avg() calls that passed their synchronous part

vars == <<_apiBaseUrl, _accessKey, _base, _symbols, _from, _to, op, ret, net,
          settled, gets, calls>>

config == <<_apiBaseUrl, _accessKey, _base, _symbols, _from, _to>>

async == <<net, settled, gets, calls>>

-----------------------------------------------------------------------------
(* Bounds of the model *)

\* longest array handed to symbols()
MaxSymbols == 2

\* fetch()/avg() calls in one behaviour
MaxCalls == 2

-----------------------------------------------------------------------------
(* Text *)

\* an unset optional field; a set array is boxed, <<array>>, so that the empty
\* array differs from an unset one
Undefined == <<>>

\* the sentinel of _from
Latest == <<"latest">>

LowerChars == <<"a","b","c","d","e","f","g","h","i","j","k","l","m",
                "n","o","p","q","r","s","t","u","v","w","x","y","z">>

UpperChars == <<"A","B","C","D","E","F","G","H","I","J","K","L","M",
                "N","O","P","Q","R","S","T","U","V","W","X","Y","Z">>

DigitChars == <<"0","1","2","3","4","5","6","7","8","9">>

RECURSIVE Str(_)
Str(cs) == IF cs = <<>> THEN "" ELSE Head(cs) \o Str(Tail(cs))

UpperChar(c) ==
  IF \E i \in DOMAIN LowerChars : LowerChars[i] = c
    THEN UpperChars[CHOOSE i \in DOMAIN LowerChars : LowerChars[i] = c]
    ELSE c

\* String.prototype.toUpperCase
ToUpperCase(cs) == [i \in DOMAIN cs |-> UpperChar(cs[i])]

\* the characters encodeURIComponent leaves alone
IsUnreserved(c) ==
  \/ \E i \in DOMAIN LowerChars : LowerChars[i] = c
  \/ \E i \in DOMAIN UpperChars : UpperChars[i] = c
  \/ \E i \in DOMAIN DigitChars : DigitChars[i] = c
  \/ c \in {"-", "_", ".", "!", "~", "*", "'", "(", ")"}

PercentEscape(c) ==
  CASE c = "," -> "%2C"
    [] c = "/" -> "%2F"
    [] c = ":" -> "%3A"
    [] c = " " -> "%20"
    [] OTHER   -> "%3F"

\* encodeURIComponent: every character outside the unreserved set is escaped
EncodeURIComponent(cs) ==
  [i \in DOMAIN cs |-> IF IsUnreserved(cs[i]) THEN cs[i] ELSE PercentEscape(cs[i])]

RECURSIVE Join(_, _)
\* Array.prototype.join
Join(items, sep) ==
  IF items = <<>> THEN <<>>
  ELSE IF Len(items) = 1 THEN Head(items)
  ELSE Head(items) \o sep \o Join(Tail(items), sep)

-----------------------------------------------------------------------------
(* Collaborators whose files are not part of the sources at hand *)

\* utils.untrailingSlashIt: drop one trailing slash
UntrailingSlashIt(url) ==
  IF url # <<>> /\ url[Len(url)] = "/" THEN SubSeq(url, 1, Len(url) - 1) ELSE url

\* currencies: the table of known codes
currencies ==
  { <<"U","S","D">>, <<"E","U","R">>, <<"G","B","P">>, <<"J","P","Y">> }

\* A date value handed to at()/from()/to(): calendar day plus hour of day.
\* utils.parseDate: the normalized calendar date <<year, month, day>>.
ParseDate(date) == <<date[1], date[2], date[3]>>

TwoDigits(n) == <<DigitChars[(n \div 10) + 1], DigitChars[(n % 10) + 1]>>

\* utils.formatDate: YYYY-MM-DD
FormatDate(d) ==
  TwoDigits(d[1] \div 100) \o TwoDigits(d[1] % 100) \o <<"-">> \o
  TwoDigits(d[2]) \o <<"-">> \o TwoDigits(d[3])

\* QueryStringBuilder.addParam(key, value, encode = true)
AddParam(qs, key, value, encode) ==
  Append(qs, key \o "=" \o Str(IF encode THEN EncodeURIComponent(value) ELSE value))

RECURSIVE JoinParams(_)
JoinParams(qs) ==
  IF Len(qs) = 1 THEN Head(qs) ELSE Head(qs) \o "&" \o JoinParams(Tail(qs))

\* QueryStringBuilder.toString
QueryString(qs) == IF qs = <<>> THEN "" ELSE "?" \o JoinParams(qs)

-----------------------------------------------------------------------------
(* date-fns *)

\* isAfter(a, b): a is later than b
IsAfter(a, b) ==
  \/ a[1] > b[1]
  \/ a[1] = b[1] /\ a[2] > b[2]
  \/ a[1] = b[1] /\ a[2] = b[2] /\ a[3] > b[3]

GetYear(d) == d[1]

-----------------------------------------------------------------------------
(* Errors *)

ExchangeRatesError(message) == [name |-> "ExchangeRatesError", message |-> message]

MsgFromLatest == "Cannot set the 'from' date to 'latest' when fetching a date range"

MsgDateOrder == "The 'from' date cannot be after the 'to' date"

MsgBefore1999 == "Cannot get historical rates before 1999"

MsgInvalidCurrency(code) == Str(code) \o " is not a valid currency"

MinYear == 1999

Ok == "ok"

Returned(v) == [kind |-> "return", value |-> v]

Threw(e) == [kind |-> "throw", error |-> e]

This == Returned("this")

\* no GET in flight
Idle == [kind |-> "idle"]

\* no fetch()/avg() answered yet
Unsettled == [outcome |-> [kind |-> "none"]]

-----------------------------------------------------------------------------
(* The validator and the URL builder, as functions of the stored fields *)

\* _validateCurrency: Ok, or the message of the error thrown
ValidateCurrency(currency) ==
  IF currency \notin currencies THEN MsgInvalidCurrency(currency) ELSE Ok

IsHistoryRequest(to) == to # Undefined

\* _validate with the year check made only for single-date requests
ValidateYearOfSingleDateOnly(from, to) ==
  IF IsHistoryRequest(to) /\ from = Latest THEN MsgFromLatest
  ELSE IF IsHistoryRequest(to) /\ to # Undefined /\ IsAfter(from, to) THEN MsgDateOrder
  ELSE IF ~IsHistoryRequest(to) /\ from # Latest /\ GetYear(from) < MinYear
    THEN MsgBefore1999
  ELSE Ok

\* _validate with the order check rejecting equal dates too
ValidateRejectsEqualDates(from, to) ==
  IF IsHistoryRequest(to) /\ from = Latest THEN MsgFromLatest
  ELSE IF IsHistoryRequest(to) /\ to # Undefined /\ ~IsAfter(to, from) THEN MsgDateOrder
  ELSE IF from # Latest /\ GetYear(from) < MinYear THEN MsgBefore1999
  ELSE Ok

\* _validate: Ok, or the message of the first error thrown
Validate(from, to) ==
  IF IsHistoryRequest(to) /\ from = Latest THEN MsgFromLatest
  ELSE IF IsHistoryRequest(to) /\ to # Undefined /\ IsAfter(from, to) THEN MsgDateOrder
  ELSE IF from # Latest /\ GetYear(from) < MinYear THEN MsgBefore1999
  ELSE Ok

\* the path segment _buildUrl appends to the base URL
UrlPath(from, to) ==
  IF IsHistoryRequest(to) THEN "history"
  ELSE IF from = Latest THEN "latest" ELSE Str(FormatDate(from))

\* _buildUrl adding symbols before base
UrlParamsSymbolsFirst(base, symbols, accessKey, from, to) ==
  LET q0 == <<>>
      q1 == IF IsHistoryRequest(to)
              THEN AddParam(AddParam(q0, "start_at",
                                     IF from # Latest THEN FormatDate(from) ELSE <<>>,
                                     TRUE),
                            "end_at",
                            IF to # Undefined THEN FormatDate(to) ELSE <<>>, TRUE)
              ELSE q0
      q2 == IF symbols # Undefined
              THEN AddParam(q1, "symbols", Join(symbols[1], <<",">>), FALSE)
              ELSE q1
      q3 == IF base # Undefined THEN AddParam(q2, "base", base, TRUE) ELSE q2
      q4 == IF accessKey # <<>> THEN AddParam(q3, "access_key", accessKey, TRUE) ELSE q3
  IN  q4

\* the parameters _buildUrl adds, in the order it adds them
UrlParams(base, symbols, accessKey, from, to) ==
  LET q0 == <<>>
      q1 == IF IsHistoryRequest(to)
              THEN AddParam(AddParam(q0, "start_at",
                                     IF from # Latest THEN FormatDate(from) ELSE <<>>,
                                     TRUE),
                            "end_at",
                            IF to # Undefined THEN FormatDate(to) ELSE <<>>, TRUE)
              ELSE q0
      q2 == IF base # Undefined THEN AddParam(q1, "base", base, TRUE) ELSE q1
      q3 == IF symbols # Undefined
              THEN AddParam(q2, "symbols", Join(symbols[1], <<",">>), FALSE)
              ELSE q2
      q4 == IF accessKey # <<>> THEN AddParam(q3, "access_key", accessKey, TRUE) ELSE q3
  IN  q4

\* _buildUrl
BuildUrl(apiBaseUrl, base, symbols, accessKey, from, to) ==
  Str(apiBaseUrl) \o "/" \o UrlPath(from, to) \o
  QueryString(UrlParams(base, symbols, accessKey, from, to))

-----------------------------------------------------------------------------
(* Inputs *)

\* constructor({ accessKey, url })
UrlInputs ==
  { <<"h","t","t","p",":","/","/","a","p","i">>,
    <<"h","t","t","p",":","/","/","a","p","i","/">> }

AccessKeyInputs == { <<>>, <<"k","1">> }

\* date values <<year, month, day, hour>>: the last day before 1999, the first
\* supported day, and one later day at two times of day
DateInputs ==
  { <<1998, 12, 31, 0>>, <<1999, 1, 1, 0>>, <<2021, 1, 1, 9>>, <<2021, 1, 1, 17>> }

\* currency codes of the table, as callers write them
CodeInputs == { <<"u","s","d">>, <<"G","b","p">> }

\* a code of the table in mixed case, and two codes that are in no table
MoreCodeInputs == { <<"u","S","d">>, <<"x","y","z">>, <<"a","b","c">> }

RECURSIVE SeqsUpTo(_, _)
SeqsUpTo(S, n) ==
  IF n = 0 THEN { <<>> }
  ELSE LET shorter == SeqsUpTo(S, n - 1)
       IN  shorter \cup { Append(s, x) : s \in shorter, x \in S }

SymbolsInputs == SeqsUpTo(CodeInputs, MaxSymbols)

MoreSymbolsInputs == SeqsUpTo(MoreCodeInputs, MaxSymbols)

-----------------------------------------------------------------------------
(* Construction and the chainable setters *)

Init ==
  /\ \E url \in UrlInputs : _apiBaseUrl = UntrailingSlashIt(url)
  /\ _accessKey \in AccessKeyInputs
  /\ _base = Undefined
  /\ _symbols = Undefined
  /\ _from = Latest
  /\ _to = Undefined
  /\ op = [name |-> "new"]
  /\ ret = This
  /\ net = Idle
  /\ settled = Unsettled
  /\ gets = 0
  /\ calls = 0

at(date) ==
  /\ _from' = ParseDate(date)
  /\ op' = [name |-> "at"]
  /\ ret' = This
  /\ UNCHANGED <<_apiBaseUrl, _accessKey, _base, _symbols, _to, async>>

latest ==
  /\ _from' = Latest
  /\ op' = [name |-> "latest"]
  /\ ret' = This
  /\ UNCHANGED <<_apiBaseUrl, _accessKey, _base, _symbols, _to, async>>

from(date) ==
  /\ _from' = ParseDate(date)
  /\ op' = [name |-> "from"]
  /\ ret' = This
  /\ UNCHANGED <<_apiBaseUrl, _accessKey, _base, _symbols, _to, async>>

to(date) ==
  /\ _to' = ParseDate(date)
  /\ op' = [name |-> "to"]
  /\ ret' = This
  /\ UNCHANGED <<_apiBaseUrl, _accessKey, _base, _symbols, _from, async>>

\* base() storing the code as given
baseKeepsCase(currency) ==
  LET currencyUpper == ToUpperCase(currency)
      checked == ValidateCurrency(currencyUpper)
  IN  /\ op' = [name |-> "base", arg |-> currency]
      /\ IF checked # Ok
           THEN /\ ret' = Threw(ExchangeRatesError(checked))
                /\ UNCHANGED _base
           ELSE /\ _base' = currency
                /\ ret' = This
      /\ UNCHANGED <<_apiBaseUrl, _accessKey, _symbols, _from, _to, async>>

base(currency) ==
  LET currencyUpper == ToUpperCase(currency)
      checked == ValidateCurrency(currencyUpper)
  IN  /\ op' = [name |-> "base", arg |-> currency]
      /\ IF checked # Ok
           THEN /\ ret' = Threw(ExchangeRatesError(checked))
                /\ UNCHANGED _base
           ELSE /\ _base' = currencyUpper
                /\ ret' = This
      /\ UNCHANGED <<_apiBaseUrl, _accessKey, _symbols, _from, _to, async>>

\* index of the first entry of the array the loop of symbols() rejects, 0 if none
FirstInvalid(currenciesArray) ==
  IF \E i \in DOMAIN currenciesArray :
       ValidateCurrency(ToUpperCase(currenciesArray[i])) # Ok
    THEN CHOOSE i \in DOMAIN currenciesArray :
           /\ ValidateCurrency(ToUpperCase(currenciesArray[i])) # Ok
           /\ \A j \in 1..(i - 1) :
                ValidateCurrency(ToUpperCase(currenciesArray[j])) = Ok
    ELSE 0

\* symbols(currencies); isArray tells a lone string from an array
symbols(arg, isArray) ==
  LET currenciesArray == IF isArray THEN arg ELSE <<arg>>
      bad == FirstInvalid(currenciesArray)
  IN  /\ op' = [name |-> "symbols", arg |-> currenciesArray]
      /\ IF bad # 0
           THEN /\ ret' = Threw(ExchangeRatesError(
                            ValidateCurrency(ToUpperCase(currenciesArray[bad]))))
                /\ UNCHANGED _symbols
           ELSE /\ _symbols' = << [i \in DOMAIN currenciesArray |->
                                     ToUpperCase(currenciesArray[i])] >>
                /\ ret' = This
      /\ UNCHANGED <<_apiBaseUrl, _accessKey, _base, _from, _to, async>>

\* get url()
url ==
  LET checked == Validate(_from, _to)
  IN  /\ op' = [name |-> "url"]
      /\ ret' = IF checked # Ok
                  THEN Threw(ExchangeRatesError(checked))
                  ELSE Returned(BuildUrl(_apiBaseUrl, _base, _symbols, _accessKey,
                                         _from, _to))
      /\ UNCHANGED <<config, async>>

\* the setters and the url getter, given codes of the table
Next ==
  \/ \E date \in DateInputs : at(date)
  \/ latest
  \/ \E date \in DateInputs : from(date)
  \/ \E date \in DateInputs : to(date)
  \/ \E currency \in CodeInputs : base(currency)
  \/ \E arr \in SymbolsInputs : symbols(arr, TRUE)
  \/ \E currency \in CodeInputs : symbols(currency, FALSE)
  \/ url

Spec == Init /\ [][Next]_vars

\* the one date the calls around base() and symbols() set
CurrencyDateInputs == { <<2021, 1, 1, 9>> }

\* the setters alone, given codes that are in no table too
NextCurrency ==
  \/ \E date \in CurrencyDateInputs : at(date)
  \/ latest
  \/ \E date \in CurrencyDateInputs : from(date)
  \/ \E date \in CurrencyDateInputs : to(date)
  \/ \E currency \in MoreCodeInputs : base(currency)
  \/ \E arr \in MoreSymbolsInputs : symbols(arr, TRUE)
  \/ \E currency \in MoreCodeInputs : symbols(currency, FALSE)

SpecCurrency == Init /\ [][NextCurrency]_vars

-----------------------------------------------------------------------------
(* Numbers and JSON values *)

RECURSIVE GCD(_, _)
GCD(a, b) == IF b = 0 THEN a ELSE GCD(b, a % b)

\* the number n/d (d > 0) in lowest terms
Rat(n, d) ==
  LET g == GCD(IF n < 0 THEN -n ELSE n, d)
  IN  <<n \div g, d \div g>>

RatAdd(a, b) == Rat(a[1] * b[2] + b[1] * a[2], a[2] * b[2])

RECURSIVE Pow10(_)
Pow10(n) == IF n = 0 THEN 1 ELSE 10 * Pow10(n - 1)

\* the value null
Null == <<"null">>

\* a JavaScript value: a number, or an object with its own keys
Num(q) == [t |-> "number", v |-> q]

Obj(f) == [t |-> "object", v |-> f]

\* Object.keys
Keys(x) == IF x.t = "object" THEN DOMAIN x.v ELSE {}

RECURSIVE KeyOrder(_)
\* the keys of an object in the order Object.keys/Object.values walk them
KeyOrder(S) ==
  IF S = {} THEN <<>>
  ELSE LET k == CHOOSE x \in S : TRUE IN <<k>> \o KeyOrder(S \ {k})

\* Object.values
ObjectValues(x) == LET order == KeyOrder(Keys(x)) IN [i \in DOMAIN order |-> x.v[order[i]]]

\* Number.isInteger
IsInteger(x) == x # Undefined /\ x # Null /\ x[2] = 1

\* +q.toFixed(digits): q >= 0 rounded to that many decimals, a tie going up;
\* toFixed(undefined) uses 0 digits
ToFixed(q, decimalPlaces) ==
  LET digits == IF decimalPlaces = Undefined THEN 0 ELSE decimalPlaces[1]
      scale  == Pow10(digits)
  IN  Rat((2 * q[1] * scale + q[2]) \div (2 * q[2]), scale)

-----------------------------------------------------------------------------
(* What the server may answer *)

CurrencyKeys == {"USD", "GBP"}

\* the rates quoted for a currency, in tenths: USD 1.0 or 1.2, GBP 0.8
RateInputs(currency) == IF currency = "USD" THEN {10, 12} ELSE {8}

DateKeys == {"2021-01-01", "2021-01-02"}

\* every object with keys among K and values in V
Objects(K, V) == UNION { [D -> V] : D \in SUBSET K }

\* { [currency]: number }
FlatRates ==
  { Obj(f) : f \in { g \in Objects(CurrencyKeys, { Num(Rat(r, 10)) : r \in 1..12 }) :
                       \A k \in DOMAIN g : \E r \in RateInputs(k) : g[k] = Num(Rat(r, 10)) } }

\* { [date]: { [currency]: number } }
NestedRates == { Obj(f) : f \in Objects(DateKeys, FlatRates) }

RatesBody(rates) == [rates |-> <<rates>>, error |-> Undefined]

ErrorBody(error) == [rates |-> Undefined, error |-> <<error>>]

EmptyBody == [rates |-> Undefined, error |-> Undefined]

UpstreamErrors == {"invalid_access_key"}

\* the one status fetch() accepts
StatusOk == 200

NetworkError == [kind |-> "failed", message |-> "Network Error"]

Answer(status, data) == [kind |-> "answered", status |-> status, data |-> data]

\* the answers to a GET: a transport failure, or a status with a body that is
\* either a rates body of the endpoint's shape or an error body
Answers(history) ==
  {NetworkError}
    \cup { Answer(StatusOk, RatesBody(r)) : r \in IF history THEN NestedRates ELSE FlatRates }
    \cup { Answer(StatusOk, ErrorBody(e)) : e \in UpstreamErrors }
    \cup { Answer(204, EmptyBody) }
    \cup { Answer(404, ErrorBody(e)) : e \in UpstreamErrors }
    \cup { Answer(404, EmptyBody) }

\* the answers the GET in flight may get
AnswersTo(request) == IF request = Idle THEN {} ELSE Answers(request.history)

-----------------------------------------------------------------------------
(* fetch() and avg() *)

Resolved(v) == [kind |-> "resolved", value |-> v]

Rejected(e) == [kind |-> "rejected", error |-> e]

Pending == "promise"

MsgBadResponse(status) == "API returned a bad response (HTTP " \o ToString(status) \o ")"

MsgFetchFailed(detail) == "Couldn't fetch the exchange rate, " \o detail

MsgNotInteger == "The decimal places parameter has to be an integer"

MsgNegative == "Decimal places cannot be negative"

\* axios.get(url): resolves with the response when its status is 2xx, rejects
\* with an error carrying the response otherwise, or carrying none when the
\* transport failed
AxiosGet(answer) ==
  IF answer.kind = "failed"
    THEN Rejected([name |-> "Error", message |-> answer.message, response |-> Undefined])
  ELSE IF answer.status >= 200 /\ answer.status < 300
    THEN Resolved(answer)
  ELSE Rejected([name |-> "Error",
                 message |-> "Request failed with status code " \o ToString(answer.status),
                 response |-> <<answer>>])

\* .then((response) => ...): the status check
ThenStatus(p) ==
  IF p.kind # "resolved" THEN p
  ELSE IF p.value.status # StatusOk
    THEN Rejected(ExchangeRatesError(MsgBadResponse(p.value.status)))
  ELSE Resolved(p.value.data)

\* the collapsing rule unwrapping whenever there is a first key
CollapseAnyFirstKey(rates) ==
  IF Cardinality(Keys(rates)) >= 1
    THEN rates.v[CHOOSE k \in Keys(rates) : TRUE]
    ELSE rates

\* keys.length === 1 ? rates[keys[0]] : rates
Collapse(rates) ==
  IF Cardinality(Keys(rates)) = 1
    THEN rates.v[CHOOSE k \in Keys(rates) : TRUE]
    ELSE rates

\* .then((data) => ...): Object.keys(data.rates) throws when there is no rates field
ThenRates(p) ==
  IF p.kind # "resolved" THEN p
  ELSE IF p.value.rates = Undefined
    THEN Rejected([name |-> "TypeError",
                   message |-> "Cannot convert undefined or null to object"])
  ELSE Resolved(Collapse(p.value.rates[1]))

\* JSON.stringify of a string
Stringify(str) == "\"" \o str \o "\""

\* err.response?.data?.error, Undefined when any link is missing or the value is falsy
UpstreamError(err) ==
  IF "response" \notin DOMAIN err THEN Undefined
  ELSE IF err.response = Undefined THEN Undefined
  ELSE IF err.response[1].data.error = Undefined THEN Undefined
  ELSE IF err.response[1].data.error[1] = "" THEN Undefined
  ELSE err.response[1].data.error

\* a catch that substitutes an empty result for the failure
CatchSubstitutesEmpty(p) ==
  IF p.kind # "rejected" THEN p ELSE Resolved(Obj(<<>>))

\* .catch((err) => ...)
CatchAll(p) ==
  IF p.kind # "rejected" THEN p
  ELSE LET upstream == UpstreamError(p.error)
           error == IF upstream # Undefined THEN Stringify(upstream[1]) ELSE p.error.message
       IN  Rejected(ExchangeRatesError(MsgFetchFailed(error)))

\* how the promise fetch() returned settles once the GET is answered
FetchSettles(answer) == CatchAll(ThenRates(ThenStatus(AxiosGet(answer))))

\* fetch() without its opening _validate() call
FetchSkipsValidation(fromDate, toDate) == Ok

\* the _validate() call opening fetch()
FetchValidates(fromDate, toDate) == Validate(fromDate, toDate)

\* mergedObj: each key of the per-date objects with its rates, in date order
Merged(rates) ==
  LET values == ObjectValues(rates)
      objects == SelectSeq(values, LAMBDA obj : obj.t = "object")
      keys == UNION { Keys(objects[i]) : i \in DOMAIN objects }
      holding(key) == SelectSeq(objects, LAMBDA obj : key \in Keys(obj))
  IN  [key \in keys |-> [i \in DOMAIN holding(key) |-> holding(key)[i].v[key].v]]

RECURSIVE SumOf(_)
\* reduce((p, c) => p + c, 0)
SumOf(numbers) ==
  IF numbers = <<>> THEN <<0, 1>> ELSE RatAdd(Head(numbers), SumOf(Tail(numbers)))

\* decimalPlaces === null ? avgRate : +avgRate.toFixed(decimalPlaces)
Rounded(avgRate, decimalPlaces) ==
  IF decimalPlaces = Null THEN avgRate ELSE ToFixed(avgRate, decimalPlaces)

\* the continuation of avg(): rates is what fetch() resolved with, toDate is
\* _to when the continuation runs
AvgThen(rates, decimalPlaces, toDate) ==
  IF ~IsHistoryRequest(toDate) THEN rates
  ELSE LET mergedObj == Merged(rates)
           keys == DOMAIN mergedObj
           avgRates == [key \in keys |->
                          LET total == SumOf(mergedObj[key])
                              avgRate == Rat(total[1], total[2] * Len(mergedObj[key]))
                          IN  Num(Rounded(avgRate, decimalPlaces))]
       IN  IF Cardinality(keys) = 1
             THEN avgRates[CHOOSE key \in keys : TRUE]
             ELSE Obj(avgRates)

\* the synchronous checks opening avg(): Ok, or the message of the error thrown
AvgChecks(decimalPlaces) ==
  IF decimalPlaces # Undefined /\ ~IsInteger(decimalPlaces) THEN MsgNotInteger
  ELSE IF decimalPlaces # Undefined /\ decimalPlaces[1] < 0 THEN MsgNegative
  ELSE Ok

\* the GET of a call, with what its continuations close over
InFlight(method, decimalPlaces) ==
  [kind |-> "inflight",
   url |-> BuildUrl(_apiBaseUrl, _base, _symbols, _accessKey, _from, _to),
   history |-> IsHistoryRequest(_to),
   method |-> method,
   decimalPlaces |-> decimalPlaces]

\* the body shared by fetch() and the fetch() inside avg(): validate, build the
\* URL, issue the GET.  One call is outstanding at a time.
Request(method, decimalPlaces) ==
  LET checked == FetchValidates(_from, _to)
  IN  IF checked # Ok
        THEN /\ ret' = Threw(ExchangeRatesError(checked))
             /\ UNCHANGED async
        ELSE /\ calls < MaxCalls
             /\ ret' = Returned(Pending)
             /\ net' = InFlight(method, decimalPlaces)
             /\ settled' = Unsettled
             /\ gets' = gets + 1
             /\ calls' = calls + 1

fetch ==
  /\ net = Idle
  /\ op' = [name |-> "fetch"]
  /\ Request("fetch", Undefined)
  /\ UNCHANGED config

avg(decimalPlaces) ==
  /\ net = Idle
  /\ op' = [name |-> "avg", arg |-> decimalPlaces]
  /\ IF AvgChecks(decimalPlaces) # Ok
       THEN /\ ret' = Threw(ExchangeRatesError(AvgChecks(decimalPlaces)))
            /\ UNCHANGED async
       ELSE Request("avg", decimalPlaces)
  /\ UNCHANGED config

\* the GET is answered and the continuations run to the end
respond(answer) ==
  /\ net # Idle
  /\ LET fetched == FetchSettles(answer)
         outcome == IF net.method = "avg" /\ fetched.kind = "resolved"
                      THEN Resolved(AvgThen(fetched.value, net.decimalPlaces, _to))
                      ELSE fetched
     IN  settled' = [method |-> net.method, decimalPlaces |-> net.decimalPlaces,
                     history |-> net.history, answer |-> answer, outcome |-> outcome]
  /\ net' = Idle
  /\ op' = [name |-> "respond"]
  /\ UNCHANGED <<config, ret, gets, calls>>

\* decimalPlaces arguments: none, null, -1, 0, 1, 1.5
DecimalPlacesInputs == { Undefined, Null, <<-1, 1>>, <<0, 1>>, <<1, 1>>, <<3, 2>> }

\* date values for the calls around fetch(): a day before 1999 and two later days
FetchDateInputs == { <<1998, 12, 31, 0>>, <<2021, 1, 1, 0>>, <<2021, 1, 2, 0>> }

NextFetch ==
  \/ \E date \in FetchDateInputs : at(date)
  \/ latest
  \/ \E date \in FetchDateInputs : from(date)
  \/ \E date \in FetchDateInputs : to(date)
  \/ url
  \/ fetch
  \/ \E decimalPlaces \in DecimalPlacesInputs : avg(decimalPlaces)
  \/ \E answer \in AnswersTo(net) : respond(answer)

SpecFetch == Init /\ [][NextFetch]_vars

-----------------------------------------------------------------------------
(* Properties of the date selector, the validator and the URL (Spec) *)

\* a date as one number, for comparing days
DayNumber(d) == d[1] * 10000 + d[2] * 100 + d[3]

\* both ends of the range are concrete dates
IsRange == _from # Latest /\ _to # Undefined

\* some stored date lies in a year before 1999
HasDateBefore1999 ==
  \/ _from # Latest /\ _from[1] < 1999
  \/ _to # Undefined /\ _to[1] < 1999

\* a range rule that _validate checks before the year is violated
BreaksRangeRule ==
  /\ _to # Undefined
  /\ \/ _from = Latest
     \/ DayNumber(_from) > DayNumber(_to)

\* C1: from any date-selector state, also one where to() has been called,
\* latest() leaves a request that is no history request, that validates, and
\* whose URL path is "latest".
C1_LatestReachesLatest ==
  [][latest => /\ ~IsHistoryRequest(_to')
               /\ Validate(_from', _to') = Ok
               /\ UrlPath(_from', _to') = "latest"]_vars

\* C2, as claimed: whenever a stored date has a year before 1999, validation
\* fails with the before-1999 error, for single dates and ranges alike.
C2_AnyOldDateGivesYearError ==
  HasDateBefore1999 => Validate(_from, _to) = MsgBefore1999

\* C2, amended: whenever a stored date has a year before 1999, validation fails
\* (url throws); the error is the before-1999 error unless a range rule checked
\* earlier is violated (from is "latest", or from is after to), and then it is
\* that rule's error.
C2_OldDateNeverValidates ==
  HasDateBefore1999 =>
    /\ Validate(_from, _to) # Ok
    /\ ~BreaksRangeRule => Validate(_from, _to) = MsgBefore1999
    /\ BreaksRangeRule /\ _from = Latest => Validate(_from, _to) = MsgFromLatest
    /\ BreaksRangeRule /\ _from # Latest => Validate(_from, _to) = MsgDateOrder
    /\ op.name = "url" => ret = Threw(ExchangeRatesError(Validate(_from, _to)))

\* url has thrown the before-1999 error for a range whose dates are in order
C2_Witness ==
  /\ op.name = "url"
  /\ IsRange
  /\ _to[1] < 1999
  /\ ret = Threw(ExchangeRatesError(MsgBefore1999))

\* C3: for a range whose two dates are of 1999 or later, url throws the
\* date-order error when from is after to, and returns when from is equal to or
\* before to.
C3_RangeOrder ==
  (op.name = "url" /\ IsRange /\ _from[1] >= 1999 /\ _to[1] >= 1999) =>
    IF DayNumber(_from) > DayNumber(_to)
      THEN ret = Threw(ExchangeRatesError(MsgDateOrder))
      ELSE ret.kind = "return"

\* url has returned for a range whose two dates are the same day
C3_Witness ==
  /\ op.name = "url"
  /\ IsRange
  /\ _from = _to
  /\ _from[1] >= 1999
  /\ ret.kind = "return"

Pad2(n) == IF n < 10 THEN "0" \o ToString(n) ELSE ToString(n)

\* a date as YYYY-MM-DD
Iso(d) == ToString(d[1]) \o "-" \o Pad2(d[2]) \o "-" \o Pad2(d[3])

RECURSIVE Separated(_, _)
Separated(strings, sep) ==
  IF strings = <<>> THEN ""
  ELSE IF Len(strings) = 1 THEN strings[1]
  ELSE strings[1] \o sep \o Separated(Tail(strings), sep)

\* the URL the stored fields stand for
ExpectedUrl ==
  LET path == IF _to # Undefined THEN "history"
              ELSE IF _from = Latest THEN "latest" ELSE Iso(_from)
      range == IF _to # Undefined
                 THEN <<"start_at=" \o Iso(_from), "end_at=" \o Iso(_to)>>
                 ELSE <<>>
      baseParam == IF _base # Undefined THEN <<"base=" \o Str(_base)>> ELSE <<>>
      symbolsParam ==
        IF _symbols # Undefined
          THEN <<"symbols=" \o
                 Separated([i \in DOMAIN _symbols[1] |-> Str(_symbols[1][i])], ",")>>
          ELSE <<>>
      keyParam == IF _accessKey # <<>> THEN <<"access_key=" \o Str(_accessKey)>> ELSE <<>>
      params == range \o baseParam \o symbolsParam \o keyParam
  IN  Str(_apiBaseUrl) \o "/" \o path \o
      (IF params = <<>> THEN "" ELSE "?" \o Separated(params, "&"))

\* C9: reading url changes no stored field; on a valid configuration it returns
\* the base URL, the path (history, latest or the ISO date) and the parameters
\* start_at, end_at, base, symbols (comma-joined), access_key in that order,
\* each present exactly when set; read again with no call in between it returns
\* the same.
C9_UrlIsFunctionOfConfig ==
  [][url => /\ config' = config
            /\ Validate(_from, _to) = Ok => ret' = Returned(ExpectedUrl)
            /\ op.name = "url" => ret' = ret]_vars

\* url has returned for a range with base, two symbols and an access key set
C9_Witness ==
  /\ op.name = "url"
  /\ ret.kind = "return"
  /\ IsRange
  /\ _base # Undefined
  /\ _symbols # Undefined
  /\ Len(_symbols[1]) = 2
  /\ _accessKey # <<>>

\* the upper-case spelling of each code a caller may give
UpperCased(code) ==
  CASE code = <<"u","S","d">> -> <<"U","S","D">>
    [] code = <<"x","y","z">> -> <<"X","Y","Z">>
    [] code = <<"a","b","c">> -> <<"A","B","C">>

IsKnown(code) == UpperCased(code) \in currencies

\* the entries of an array before its first unknown code are all known
FirstUnknown(codes) ==
  CHOOSE i \in DOMAIN codes :
    ~IsKnown(codes[i]) /\ \A j \in 1..(i - 1) : IsKnown(codes[j])

\* what a call of symbols() with these codes must do
SymbolsContract(codes) ==
  IF \A i \in DOMAIN codes : IsKnown(codes[i])
    THEN /\ ret' = This
         /\ _symbols' = << [i \in DOMAIN codes |-> UpperCased(codes[i])] >>
         /\ UNCHANGED <<_base, _from, _to>>
    ELSE /\ ret' = Threw(ExchangeRatesError(
                     Str(UpperCased(codes[FirstUnknown(codes)])) \o
                     " is not a valid currency"))
         /\ UNCHANGED <<_base, _symbols, _from, _to>>

\* C10: base(code) and symbols(codes) succeed exactly when every code, upper-
\* cased, is in the currency table, and then store the upper-cased code(s);
\* otherwise they throw the invalid-currency error naming the first unknown
\* entry and leave the stored base, symbols and dates as they were.
C10_CurrencySetters ==
  [][/\ op'.name = "base" =>
          IF IsKnown(op'.arg)
            THEN /\ ret' = This
                 /\ _base' = UpperCased(op'.arg)
                 /\ UNCHANGED <<_symbols, _from, _to>>
            ELSE /\ ret' = Threw(ExchangeRatesError(
                             Str(UpperCased(op'.arg)) \o " is not a valid currency"))
                 /\ UNCHANGED <<_base, _symbols, _from, _to>>
     /\ op'.name = "symbols" => SymbolsContract(op'.arg)
    ]_vars

\* symbols() has thrown on an unknown code with a base and symbols stored before
C10_Witness ==
  /\ op.name = "symbols"
  /\ Len(op.arg) = 2
  /\ IsKnown(op.arg[1])
  /\ ret.kind = "throw"
  /\ _base # Undefined
  /\ _symbols # Undefined
  /\ Len(_symbols[1]) = 2

-----------------------------------------------------------------------------
(* Properties of fetch() and avg() (SpecFetch) *)

\* C4: no GET is issued on a configuration that fails validation: there url
\* and fetch() throw the validation error, avg() throws it too (or, given a bad
\* argument, the argument's error), and the step issues no GET and puts none
\* in flight.
C4_NoGetWithoutValidation ==
  [][/\ (gets' # gets \/ (net' # net /\ net' # Idle)) => Validate(_from, _to) = Ok
     /\ (Validate(_from, _to) # Ok /\ op'.name \in {"url", "fetch", "avg"}) =>
          /\ ret'.kind = "throw"
          /\ gets' = gets
          /\ net' = net
          /\ (op'.name = "avg" => op'.arg \in {Undefined, <<0, 1>>, <<1, 1>>}) =>
               ret' = Threw(ExchangeRatesError(Validate(_from, _to)))
    ]_vars

\* fetch() has thrown, after an earlier call had issued its GET
C4_Witness ==
  /\ op.name = "fetch"
  /\ ret.kind = "throw"
  /\ Validate(_from, _to) # Ok
  /\ gets = 1
  /\ net = Idle

\* the call last answered got a 200 answer with a rates field
GotRates ==
  /\ settled.outcome.kind # "none"
  /\ settled.answer.kind = "answered"
  /\ settled.answer.status = 200
  /\ settled.answer.data.rates # Undefined

\* that rates field
RatesGot == settled.answer.data.rates[1]

SameNumber(a, b) == a[1] * b[2] = b[1] * a[2]

\* the currencies quoted on at least one date of a history answer
CurrenciesIn(rates) == UNION { DOMAIN rates.v[d].v : d \in DOMAIN rates.v }

\* the dates of a history answer that quote a currency
DatesWith(rates, currency) == { d \in DOMAIN rates.v : currency \in DOMAIN rates.v[d].v }

RECURSIVE TotalOver(_, _, _)
\* the sum of a currency's rates over some dates, as a fraction
TotalOver(rates, currency, dates) ==
  IF dates = {} THEN <<0, 1>>
  ELSE LET d == CHOOSE x \in dates : TRUE
           rest == TotalOver(rates, currency, dates \ {d})
           rate == rates.v[d].v[currency].v
       IN  <<rate[1] * rest[2] + rest[1] * rate[2], rate[2] * rest[2]>>

\* the arithmetic mean of a currency's rates over the dates that quote it
ExactMean(rates, currency) ==
  LET dates == DatesWith(rates, currency)
      total == TotalOver(rates, currency, dates)
  IN  <<total[1], total[2] * Cardinality(dates)>>

\* q to n decimals: the nearest multiple of 10^-n, a tie going up
NearestDecimal(q, n) ==
  LET scale == Pow10(n)
      m == CHOOSE k \in 0..(2 * scale) :
             /\ (2 * k - 1) * q[2] <= 2 * q[1] * scale
             /\ 2 * q[1] * scale < (2 * k + 1) * q[2]
  IN  <<m, scale>>

\* the mean as avg(decimalPlaces) is to report it
MeanAsAsked(rates, currency, decimalPlaces) ==
  IF decimalPlaces = Undefined
    THEN ExactMean(rates, currency)
    ELSE NearestDecimal(ExactMean(rates, currency), decimalPlaces[1])

\* value is the per-currency mean of a history answer: the bare number for a
\* single currency, the mapping otherwise
IsAvgOf(value, rates, decimalPlaces) ==
  LET keys == CurrenciesIn(rates)
  IN  IF Cardinality(keys) = 1
        THEN /\ value.t = "number"
             /\ SameNumber(value.v,
                           MeanAsAsked(rates, CHOOSE k \in keys : TRUE, decimalPlaces))
        ELSE /\ value.t = "object"
             /\ DOMAIN value.v = keys
             /\ \A k \in keys :
                  SameNumber(value.v[k].v, MeanAsAsked(rates, k, decimalPlaces))

\* C5: for a valid range request answered with one or more dates, avg() resolves
\* with the mean of every currency over exactly the dates that quote it (rounded
\* as asked), as a bare number for a single currency and as the mapping
\* otherwise, also when the answer holds a single date.
C5_AvgIsMeanPerKey ==
  (GotRates /\ settled.method = "avg" /\ settled.history /\ DOMAIN RatesGot.v # {}) =>
    /\ settled.outcome.kind = "resolved"
    /\ IsAvgOf(settled.outcome.value, RatesGot, settled.decimalPlaces)

\* C6: avg() without an argument on a range request resolves with every mean at
\* full precision (1.0 and 1.2 give 1.1, a single 0.8 stays 0.8).
C6_NoArgumentKeepsPrecision ==
  (/\ GotRates
   /\ settled.method = "avg"
   /\ settled.history
   /\ settled.decimalPlaces = Undefined
   /\ Cardinality(DOMAIN RatesGot.v) >= 2) =>
    /\ settled.outcome.kind = "resolved"
    /\ IsAvgOf(settled.outcome.value, RatesGot, Undefined)

\* C7: on a 200 answer fetch() resolves with the value under the only key when
\* rates has exactly one key, and with the whole rates mapping when it has none
\* or several.
C7_FetchCollapsesSingleKey ==
  (GotRates /\ settled.method = "fetch") =>
    LET expected == IF Cardinality(DOMAIN RatesGot.v) = 1
                      THEN RatesGot.v[CHOOSE k \in DOMAIN RatesGot.v : TRUE]
                      ELSE RatesGot
    IN  /\ settled.outcome.kind = "resolved"
        /\ settled.outcome.value.t = expected.t
        /\ settled.outcome.value = expected

\* fetch() for a single day has resolved with a bare number
C7_Witness ==
  /\ GotRates
  /\ settled.method = "fetch"
  /\ ~settled.history
  /\ Cardinality(DOMAIN RatesGot.v) = 1
  /\ settled.outcome.kind = "resolved"
  /\ settled.outcome.value.t = "number"

\* the GET failed: no answer, a status other than 200, or an error payload
GetFailed(answer) ==
  \/ answer.kind = "failed"
  \/ answer.kind = "answered" /\ answer.status # 200
  \/ answer.kind = "answered" /\ answer.data.error # Undefined

\* what the message says after "Couldn't fetch the exchange rate, "
FailureDetail(answer) ==
  IF answer.kind = "failed" THEN "Network Error"
  ELSE IF answer.status = 404 /\ answer.data.error # Undefined
    THEN "\"" \o answer.data.error[1] \o "\""
  ELSE IF answer.status = 404 THEN "Request failed with status code 404"
  ELSE IF answer.status = 204 THEN "API returned a bad response (HTTP 204)"
  ELSE "Cannot convert undefined or null to object"

\* C8: every call that passes validation issues exactly one GET; when that GET
\* fails (transport, a status other than 200, an error payload) the promise is
\* rejected with one ExchangeRatesError "Couldn't fetch the exchange rate, ...",
\* it never resolves, and no further GET is in flight.
C8_FailedGetRejectsOnce ==
  /\ gets = calls
  /\ net # Idle => settled = Unsettled
  /\ (settled.outcome.kind # "none" /\ GetFailed(settled.answer)) =>
       /\ settled.outcome =
            Rejected([name |-> "ExchangeRatesError",
                      message |-> "Couldn't fetch the exchange rate, " \o
                                  FailureDetail(settled.answer)])
       /\ net = Idle

\* fetch() has been rejected on a 404 that carried an error payload
C8_Witness ==
  /\ settled.outcome.kind = "rejected"
  /\ settled.method = "fetch"
  /\ settled.answer.kind = "answered"
  /\ settled.answer.status = 404
  /\ settled.answer.data.error # Undefined
  /\ gets = 2

====
